---- MODULE Spec2Model ----
(***************************************************************************)
(* State-machine model of the OAuth2/PKCE token lifecycle of the Schwab AI *)
(* Scalper backend: backend/routes/auth.js (authorize, callback, refresh, *)
(* logout, status),                                                        *)
(* backend/routes/trading.js (authenticateRequest and the three trading    *)
(* routes), backend/utils/tokenStore.js, and of the auto-trading module    *)
(* (startAutoTrading, stopAutoTrading, getAutoStatus).                     *)
(*                                                                         *)
(* Node runs every handler to its next await without interleaving, so one  *)
(* action is the synchronous part of a handler up to its await, and one    *)
(* action is its continuation when the awaited HTTP call settles.          *)
(***************************************************************************)
EXTENDS Integers, Sequences, FiniteSets, TLC

\* ---------------------------------------------------------------- bounds
MaxAuthorize == 2      \* /authorize requests in a run
MaxCallback  == 2      \* outbound code-exchange calls in a run
MaxTrading   == 1      \* downstream brokerage calls in a run
MaxStoreSet  == 1      \* tokenStore.set calls on utils/tokenStore.js in a run
MaxTicks     == 3      \* clock advances in a run
MaxRefresh   == 2      \* outbound refresh calls in a run
MaxStart     == 2      \* startAutoTrading calls in a run
MaxScans     == 2      \* scans of one auto-trading loop
MaxBatch     == 2      \* signals in one answer of getRocketSignals

\* ------------------------------------------------------ value universes
Undefined == "undefined"          \* JavaScript undefined (absent field / parameter)

Ctx == {"A", "B"}                 \* session contexts (browser cookie jars)

\* crypto.randomBytes(32): 256 random bits never repeat in a run, so the n-th
\* draw of each kind is the n-th fresh value.
StateName    == <<"st1", "st2", "st3", "st4">>
VerifierName == <<"cv1", "cv2", "cv3", "cv4">>
SidName      == <<"sid1", "sid2", "sid3", "sid4">>

\* sha256(codeVerifier).digest('base64url'): injective on the verifiers drawn,
\* and never equal to a verifier.
ChallengeName == <<"S256(cv1)", "S256(cv2)", "S256(cv3)", "S256(cv4)">>

VerifierIndex(v) == CHOOSE n \in 1..Len(VerifierName) : VerifierName[n] = v

codeChallenge(v) == ChallengeName[VerifierIndex(v)]

\* the provider mints a new access token and refresh token in every response
AccessName  == <<"at1", "at2", "at3", "at4", "at5", "at6", "at7", "at8", "at9">>
RefreshName == <<"rt1", "rt2", "rt3", "rt4", "rt5", "rt6", "rt7", "rt8", "rt9">>

States    == {StateName[n] : n \in 1..MaxAuthorize}   \* state values a client can present
Codes     == {"code1"}              \* the code is opaque to the backend: it is only forwarded
ExpiresIn == {1, 2}               \* the provider's expires_in, in seconds
\* the instants (ms) at which the clock is read, in order: a record written at
\* 0 with expires_in = 1 expires at 1000, and 999 and 1001 are 1 ms either side
Instant == <<0, 999, 1000, 1001, 1999, 2000, 2001, 3000>>

TradingRoutes == {"accounts", "quotes", "orders"}
DefaultUser == "default-user"
SessionIDOf == [c \in Ctx |-> IF c = "A" THEN "sessA" ELSE "sessB"]
HeaderValues == {Undefined, "sid1"}                   \* the sessionid request header
StoreKeys == {"sid1", "sessA", DefaultUser}
\* the answers of getRocketSignals: every signal is given by its `confirmed` flag
Batches == UNION {[1..n -> BOOLEAN] : n \in 0..MaxBatch}
RefreshKeys == {Undefined, "sid1", "sid2"}                    \* the sessionId of a request body
ProviderStatus == {400, 401, 0}   \* status of a rejected token call; 0: no response

NoSession    == [present |-> FALSE, oauthState |-> Undefined, codeVerifier |-> Undefined]
EmptySession == [present |-> TRUE, oauthState |-> Undefined, codeVerifier |-> Undefined]

\* the observation of one step: the request, the decision taken, the response
NoResp == [route |-> "none", ctx |-> "none", key |-> Undefined, state |-> Undefined,
           code |-> Undefined, verifier |-> Undefined, outcome |-> "none", status |-> 0,
           body |-> "none", token |-> Undefined, issued |-> "none",
           afterFail |-> FALSE, afterOk |-> FALSE,
           gate |-> "none", hadRecord |-> FALSE, expiresAt |-> 0, at |-> 0,
           refresh |-> Undefined, sent |-> Undefined, expiresIn |-> 0, provider |-> 0,
           overlapped |-> FALSE, repeat |-> FALSE, exposed |-> {}]

VARIABLES
  sessionMiddleware, \* whether the app mounts a session middleware before the routers
  session,           \* per session context: the persisted req.session
  tokenStore,        \* auth.js: const tokenStore = new Map()
  store,             \* utils/tokenStore.js: const store = new Map()
  now,               \* Date.now()
  ticks,             \* clock advances so far
  attempts,          \* history: attempts[n] = context of the n-th /authorize
  issued,            \* history: state most recently issued per context
  failedSince,       \* history: a /callback failed in the context since its last /authorize
  succeeded,         \* history: <<context, code, state, key>> of the callbacks that stored tokens
  ncalls,            \* history: outbound POSTs to SCHWAB_TOKEN_URL so far
  nbroker,           \* history: outbound calls to the brokerage API so far
  minted,            \* token responses the provider has sent so far
  pendingCb,         \* /callback handlers awaiting axios.post
  pendingTr,         \* trading handlers awaiting axios
  nsid,              \* session ids generated so far
  pendingRf,         \* /refresh handlers awaiting axios.post
  nrefresh,          \* history: outbound refresh POSTs to SCHWAB_TOKEN_URL so far
  AUTO_TRADING_ACTIVE, \* part_002 26
  loops,             \* the n-th startAutoTrading call: where it awaits, the signals of
                     \* its batch still to visit, the number of its scan
  last               \* the step just taken

\* the state of the HTTP backend and the state of the auto-trading module
backendVars == <<sessionMiddleware, session, tokenStore, store, now, ticks, attempts, issued,
                 failedSince, succeeded, ncalls, nbroker, minted, pendingCb, pendingTr, nsid,
                 pendingRf, nrefresh, last>>

autoVars == <<AUTO_TRADING_ACTIVE, loops>>

vars == <<backendVars, autoVars>>

\* ------------------------------------------------------------- helpers
\* Map.prototype.has / set / delete / clear
Has(m, k) == k \in DOMAIN m

\* a variant that overwrites an existing record field by field, the access
\* token first
MapSet_Merge(m, k, v) ==
  IF Has(m, k) THEN [m EXCEPT ![k] = [m[k] EXCEPT !.accessToken = v.accessToken]]
  ELSE [x \in (DOMAIN m) \cup {k} |-> IF x = k THEN v ELSE m[x]]

MapSet(m, k, v) == [x \in (DOMAIN m) \cup {k} |-> IF x = k THEN v ELSE m[x]]

MapDelete(m, k) == [x \in (DOMAIN m) \ {k} |-> m[x]]

EmptyMap == [x \in {} |-> NoResp]

\* JavaScript truthiness of a string-or-undefined value
Truthy(v) == v # Undefined /\ v # ""

\* a variant keeping the pending attempt in one module-level object
reqSession_Shared(c) == IF sessionMiddleware THEN session["A"] ELSE NoSession

\* req.session as the handler finds it on entry.  With a session middleware
\* mounted it is the context's session object; server.js mounts none, and then
\* it is undefined on every request.
reqSession(c) == IF sessionMiddleware THEN session[c] ELSE NoSession

\* req.sessionID, set by the session middleware only
reqSessionID(c) == IF sessionMiddleware THEN SessionIDOf[c] ELSE Undefined

\* ---------------------------------------------------------------- Init
Init ==
  /\ sessionMiddleware \in BOOLEAN
  /\ session = [c \in Ctx |-> EmptySession]
  /\ tokenStore = EmptyMap
  /\ store = EmptyMap
  /\ now = 0
  /\ ticks = 0
  /\ attempts = << >>
  /\ issued = [c \in Ctx |-> "none"]
  /\ failedSince = [c \in Ctx |-> FALSE]
  /\ succeeded = {}
  /\ ncalls = 0
  /\ nbroker = 0
  /\ minted = 0
  /\ pendingCb = {}
  /\ pendingTr = {}
  /\ nsid = 0
  /\ pendingRf = {}
  /\ nrefresh = 0
  /\ AUTO_TRADING_ACTIVE = FALSE
  /\ loops = << >>
  /\ last = NoResp

\* ------------------------------------------------- GET /api/auth/authorize
\* auth.js 28-38: the random values carried by the authUrl of the response
authUrlParams(state, challenge) == {state, challenge}

\* auth.js 14-43.  req.session = req.session || {} creates a request-local
\* object when no middleware supplied one; it dies with the request.
\* (The catch of 39-42 answers 500 only if the environment lacks SCHWAB_AUTH_URL
\* or the random source fails; the deployment is taken to be configured.)
Authorize(c) ==
  /\ Len(attempts) < MaxAuthorize
  /\ LET n  == Len(attempts) + 1
         st == StateName[n]
         cv == VerifierName[n]
     IN /\ session' = IF sessionMiddleware
                         THEN [session EXCEPT ![c] = [present |-> TRUE, oauthState |-> st,
                                                      codeVerifier |-> cv]]
                         ELSE session
        /\ attempts' = Append(attempts, c)
        /\ issued' = [issued EXCEPT ![c] = st]
        /\ failedSince' = [failedSince EXCEPT ![c] = FALSE]
        /\ last' = [NoResp EXCEPT !.route = "authorize", !.ctx = c, !.state = st,
                                  !.outcome = "pending", !.status = 200,
                                  !.body = "authUrl", !.token = codeChallenge(cv),
                                  !.exposed = authUrlParams(st, codeChallenge(cv))]
  /\ UNCHANGED <<pendingRf, nrefresh>>
  /\ UNCHANGED autoVars
  /\ UNCHANGED <<sessionMiddleware, tokenStore, store, now, ticks, succeeded, ncalls,
                 nbroker, minted, pendingCb, pendingTr, nsid>>

\* -------------------------------------------------- GET /api/auth/callback
\* auth.js 54: !req.session || state !== req.session.oauthState
stateRejected(sess, state) == (~sess.present) \/ state # sess.oauthState

\* history: a /callback of this context with this code and state stored tokens
StoredFor(c, code, state) ==
  \E t \in succeeded : t[1] = c /\ t[2] = code /\ t[3] = state

\* auth.js 49-76: the handler up to the await of axios.post.
Callback(c, code, state) ==
  LET sess == reqSession(c) IN
  IF stateRejected(sess, state)
    THEN \* 55, 90-92: throw, caught, redirect to /error?message=auth_failed
      /\ failedSince' = [failedSince EXCEPT ![c] = TRUE]
      /\ last' = [NoResp EXCEPT !.route = "callback", !.ctx = c, !.state = state,
                                !.code = code, !.outcome = "invalid_state",
                                !.status = 302, !.body = "error",
                                !.issued = issued[c],
                                !.afterFail = failedSince[c],
                                !.afterOk = StoredFor(c, code, state)]
      /\ UNCHANGED <<pendingRf, nrefresh>>
      /\ UNCHANGED autoVars
      /\ UNCHANGED <<sessionMiddleware, session, tokenStore, store, now, ticks, attempts,
                     issued, succeeded, ncalls, nbroker, minted, pendingCb, pendingTr, nsid>>
    ELSE \* 59-76: one POST to the token endpoint
      /\ ncalls < MaxCallback
      /\ LET call == [id |-> ncalls + 1, ctx |-> c, code |-> code, state |-> state,
                      verifier |-> sess.codeVerifier, afterFail |-> failedSince[c]]
         IN /\ ncalls' = ncalls + 1
            /\ pendingCb' = pendingCb \cup {call}
            /\ last' = [NoResp EXCEPT !.route = "callback", !.ctx = c, !.state = state,
                                      !.code = code, !.verifier = call.verifier,
                                      !.outcome = "exchanging", !.issued = issued[c],
                                      !.afterFail = call.afterFail,
                                      !.afterOk = StoredFor(c, code, state)]
      /\ UNCHANGED <<pendingRf, nrefresh>>
      /\ UNCHANGED autoVars
      /\ UNCHANGED <<sessionMiddleware, session, tokenStore, store, now, ticks, attempts,
                     issued, failedSince, succeeded, nbroker, minted, pendingTr, nsid>>

\* auth.js 82-86: the record built from the provider's response
tokenRecord(access, refresh, expiresIn, t) ==
  [accessToken |-> access, refreshToken |-> refresh, expiresAt |-> t + expiresIn * 1000]

\* a variant whose redirect carries the access token as well
callbackRedirect_WithToken(sessionId, rec) == {sessionId, rec.accessToken}

\* auth.js 89: the values carried by the redirect to the dashboard
callbackRedirect(sessionId, rec) == {sessionId}

\* auth.js 78-89: axios.post resolved with a 2xx response
CallbackExchanged(p, withRefresh, expiresIn) ==
  /\ p \in pendingCb
  /\ LET sessionId == SidName[nsid + 1]
         access == AccessName[minted + 1]
         refresh == IF withRefresh THEN RefreshName[minted + 1] ELSE Undefined
         rec == tokenRecord(access, refresh, expiresIn, now)
     IN /\ tokenStore' = MapSet(tokenStore, sessionId, rec)
        /\ last' = [NoResp EXCEPT !.route = "callback", !.ctx = p.ctx, !.state = p.state,
                                  !.code = p.code, !.outcome = "authorized", !.status = 302,
                                  !.body = "dashboard", !.key = sessionId,
                                  !.token = access, !.expiresAt = rec.expiresAt,
                                  !.afterFail = p.afterFail, !.refresh = refresh,
                                  !.expiresIn = expiresIn, !.at = now,
                                  !.exposed = callbackRedirect(sessionId, rec)]
        /\ succeeded' = succeeded \cup {<<p.ctx, p.code, p.state, sessionId>>}
  /\ nsid' = nsid + 1
  /\ minted' = minted + 1
  /\ pendingCb' = pendingCb \ {p}
  /\ UNCHANGED <<pendingRf, nrefresh>>
  /\ UNCHANGED autoVars
  /\ UNCHANGED <<sessionMiddleware, session, store, now, ticks, attempts, issued,
                 failedSince, ncalls, nbroker, pendingTr>>

\* a variant that writes the record before looking at the response
callbackCatchStore_WriteFirst(m) ==
  MapSet(m, Undefined, [accessToken |-> Undefined, refreshToken |-> Undefined, expiresAt |-> 0])

\* auth.js 90-93: what the catch block does to the token store
callbackCatchStore(m) == m

\* auth.js 90-93: axios.post rejected (non-2xx status, or no response at all)
CallbackFailed(p, providerStatus) ==
  /\ p \in pendingCb
  /\ pendingCb' = pendingCb \ {p}
  /\ tokenStore' = callbackCatchStore(tokenStore)
  /\ failedSince' = [failedSince EXCEPT ![p.ctx] = TRUE]
  /\ last' = [NoResp EXCEPT !.route = "callback", !.ctx = p.ctx, !.state = p.state,
                            !.code = p.code, !.outcome = "exchange_failed",
                            !.status = 302, !.body = "error", !.gate = providerStatus,
                            !.afterFail = p.afterFail]
  /\ UNCHANGED <<pendingRf, nrefresh>>
  /\ UNCHANGED autoVars
  /\ UNCHANGED <<sessionMiddleware, session, store, now, ticks, attempts, issued,
                 succeeded, ncalls, nbroker, minted, nsid>>
  /\ UNCHANGED pendingTr

\* ---------------------------------------------------- GET /api/auth/status
\* auth.js 175: tokens.expiresAt > Date.now()
statusValid(expiresAt, t) == expiresAt > t

\* auth.js 167-178
Status(sessionId) ==
  /\ IF ~Truthy(sessionId) \/ ~Has(tokenStore, sessionId)
       THEN last' = [NoResp EXCEPT !.route = "status", !.key = sessionId, !.status = 200,
                                   !.body = "authenticated:false", !.at = now]
       ELSE LET tokens == tokenStore[sessionId]
                isValid == statusValid(tokens.expiresAt, now)
            IN last' = [NoResp EXCEPT !.route = "status", !.key = sessionId, !.status = 200,
                                      !.body = IF isValid THEN "authenticated:true"
                                                          ELSE "authenticated:false",
                                      !.hadRecord = TRUE, !.expiresAt = tokens.expiresAt,
                                      !.at = now]
  /\ UNCHANGED <<pendingRf, nrefresh>>
  /\ UNCHANGED autoVars
  /\ UNCHANGED <<sessionMiddleware, session, tokenStore, store, now, ticks, attempts, issued,
                 failedSince, succeeded, ncalls, nbroker, minted, pendingCb, pendingTr, nsid>>

\* --------------------------------------------------- POST /api/auth/refresh
\* auth.js 100-124: the handler up to the await of axios.post.  `tokens` is the
\* record read at line 108; the call carries tokens.refreshToken whatever it is.
Refresh(sessionId) ==
  IF ~Truthy(sessionId) \/ ~Has(tokenStore, sessionId)
    THEN \* 104-106
      /\ last' = [NoResp EXCEPT !.route = "refresh", !.key = sessionId,
                                !.outcome = "no_session", !.status = 401,
                                !.body = "Invalid session"]
      /\ UNCHANGED <<pendingRf, nrefresh>>
    ELSE \* 108-124: one POST to the token endpoint
      /\ nrefresh < MaxRefresh
      /\ LET tokens == tokenStore[sessionId]
             inFlight == {q \in pendingRf : q.key = sessionId}
             call == [id |-> nrefresh + 1, key |-> sessionId, sent |-> tokens.refreshToken,
                      overlapped |-> inFlight # {}]
         IN /\ nrefresh' = nrefresh + 1
            /\ pendingRf' = {IF q \in inFlight THEN [q EXCEPT !.overlapped = TRUE] ELSE q :
                               q \in pendingRf} \cup {call}
            /\ last' = [NoResp EXCEPT !.route = "refresh", !.key = sessionId,
                                      !.outcome = "refreshing", !.hadRecord = TRUE,
                                      !.sent = tokens.refreshToken,
                                      !.overlapped = call.overlapped]

RefreshStep(sessionId) ==
  /\ Refresh(sessionId)
  /\ UNCHANGED autoVars
  /\ UNCHANGED <<sessionMiddleware, session, tokenStore, store, now, ticks, attempts, issued,
                 failedSince, succeeded, ncalls, nbroker, minted, pendingCb, pendingTr, nsid>>

\* a variant that stores the response's refresh_token as it came
refreshRecord_NoFallback(access, refresh, sent, expiresIn, t) ==
  tokenRecord(access, refresh, expiresIn, t)

\* auth.js 129-133: the record built from the provider's response;
\* 131: refresh_token || tokens.refreshToken
refreshRecord(access, refresh, sent, expiresIn, t) ==
  tokenRecord(access, IF Truthy(refresh) THEN refresh ELSE sent, expiresIn, t)

\* a variant that keeps the record another refresh wrote in the meantime
refreshStore_FirstWins(m, p, rec) ==
  IF Has(m, p.key) /\ m[p.key].refreshToken # p.sent THEN m ELSE MapSet(m, p.key, rec)

\* auth.js 129: tokenStore.set(sessionId, {...}) of the call p
refreshStore(m, p, rec) == MapSet(m, p.key, rec)

\* auth.js 126-136: axios.post resolved with a 2xx response
RefreshExchanged(p, withRefresh, expiresIn) ==
  /\ p \in pendingRf
  /\ LET access == AccessName[minted + 1]
         refresh == IF withRefresh THEN RefreshName[minted + 1] ELSE Undefined
         rec == refreshRecord(access, refresh, p.sent, expiresIn, now)
     IN /\ tokenStore' = refreshStore(tokenStore, p, rec)
        /\ last' = [NoResp EXCEPT !.route = "refresh", !.key = p.key,
                                  !.outcome = "refreshed", !.status = 200,
                                  !.body = "success", !.token = access,
                                  !.refresh = refresh, !.sent = p.sent,
                                  !.expiresIn = expiresIn, !.at = now,
                                  !.expiresAt = rec.expiresAt,
                                  !.hadRecord = Has(tokenStore, p.key),
                                  !.overlapped = p.overlapped]
  /\ minted' = minted + 1
  /\ pendingRf' = pendingRf \ {p}
  /\ UNCHANGED autoVars
  /\ UNCHANGED <<sessionMiddleware, session, store, now, ticks, attempts, issued,
                 failedSince, succeeded, ncalls, nbroker, pendingCb, pendingTr, nsid,
                 nrefresh>>

\* a variant that drops the session when the refresh fails
refreshCatchStore_Drops(m, p) == MapDelete(m, p.key)

\* auth.js 137-140: what the catch block does to the token store
refreshCatchStore(m, p) == m

\* auth.js 139: res.status(500), whatever error.response carries
refreshFailureStatus(providerStatus) == 500

\* auth.js 137-140: axios.post rejected; providerStatus is the provider's HTTP
\* status, 0 when no response arrived (transport failure)
RefreshFailed(p, providerStatus) ==
  /\ p \in pendingRf
  /\ pendingRf' = pendingRf \ {p}
  /\ tokenStore' = refreshCatchStore(tokenStore, p)
  /\ last' = [NoResp EXCEPT !.route = "refresh", !.key = p.key,
                            !.outcome = "refresh_failed",
                            !.status = refreshFailureStatus(providerStatus),
                            !.body = "Failed to refresh token",
                            !.provider = providerStatus, !.sent = p.sent,
                            !.hadRecord = Has(tokenStore, p.key),
                            !.overlapped = p.overlapped]
  /\ UNCHANGED autoVars
  /\ UNCHANGED <<sessionMiddleware, session, store, now, ticks, attempts, issued,
                 failedSince, succeeded, ncalls, nbroker, minted, pendingCb, pendingTr, nsid,
                 nrefresh>>

\* ---------------------------------------------------- POST /api/auth/logout
\* a variant that leaves the record in place
logoutStore_Keeps(m, sessionId) == m

\* auth.js 151-153: tokenStore.delete(sessionId) when the key is present
logoutStore(m, sessionId) ==
  IF Truthy(sessionId) /\ Has(m, sessionId) THEN MapDelete(m, sessionId) ELSE m

\* auth.js 147-161
Logout(sessionId) ==
  /\ tokenStore' = logoutStore(tokenStore, sessionId)
  /\ last' = [NoResp EXCEPT !.route = "logout", !.key = sessionId,
                            !.outcome = "logged_out", !.status = 200, !.body = "success",
                            !.hadRecord = Truthy(sessionId) /\ Has(tokenStore, sessionId),
                            !.repeat = (last.route = "logout" /\ last.key = sessionId)]
  /\ UNCHANGED autoVars
  /\ UNCHANGED <<sessionMiddleware, session, store, now, ticks, attempts, issued,
                 failedSince, succeeded, ncalls, nbroker, minted, pendingCb, pendingTr, nsid,
                 pendingRf, nrefresh>>

\* ------------------------------------------------- utils/tokenStore.js API
\* tokenStore.set(key, value), called by whoever imports the module
StoreSet(k, expiresIn) ==
  /\ minted < MaxStoreSet
  /\ store' = MapSet(store, k, tokenRecord(AccessName[minted + 1], RefreshName[minted + 1],
                                           expiresIn, now))
  /\ minted' = minted + 1
  /\ UNCHANGED <<pendingRf, nrefresh>>
  /\ UNCHANGED autoVars
  /\ UNCHANGED <<sessionMiddleware, session, tokenStore, now, ticks, attempts, issued,
                 failedSince, succeeded, ncalls, nbroker, pendingCb, pendingTr, nsid,
                 last>>

\* tokenStore.delete(key)
StoreDelete(k) ==
  /\ Has(store, k)
  /\ store' = MapDelete(store, k)
  /\ UNCHANGED <<pendingRf, nrefresh>>
  /\ UNCHANGED autoVars
  /\ UNCHANGED <<sessionMiddleware, session, tokenStore, now, ticks, attempts, issued,
                 failedSince, succeeded, ncalls, nbroker, minted, pendingCb, pendingTr, nsid,
                 last>>

\* tokenStore.clear()
StoreClear ==
  /\ store # EmptyMap
  /\ store' = EmptyMap
  /\ UNCHANGED <<pendingRf, nrefresh>>
  /\ UNCHANGED autoVars
  /\ UNCHANGED <<sessionMiddleware, session, tokenStore, now, ticks, attempts, issued,
                 failedSince, succeeded, ncalls, nbroker, minted, pendingCb, pendingTr, nsid,
                 last>>

\* ------------------------------------------------------ the trading routes
\* trading.js 27: req.headers['sessionid'] || req.sessionID || 'default-user'
sessionKey(header, c) ==
  IF Truthy(header) THEN header
  ELSE IF Truthy(reqSessionID(c)) THEN reqSessionID(c)
  ELSE DefaultUser

\* a variant that expires the token one millisecond early
gateExpired_Early(expiresAt, t) == expiresAt <= t + 1

\* trading.js 33: tokens.expiresAt <= Date.now()
gateExpired(expiresAt, t) == expiresAt <= t

Rejected(msg) == [admit |-> FALSE, status |-> 401, error |-> msg, accessToken |-> Undefined]

\* a variant without the expiry check of line 33
authenticateRequest_NoExpiry(m, sessionId, t) ==
  IF ~Truthy(sessionId) \/ ~Has(m, sessionId) THEN Rejected("Unauthorized")
  ELSE IF ~Truthy(m[sessionId].accessToken) THEN Rejected("Unauthorized")
  ELSE [admit |-> TRUE, status |-> 0, error |-> "none",
        accessToken |-> m[sessionId].accessToken]

\* a variant answering a stale record with the message of a missing one
authenticateRequest_OneMessage(m, sessionId, t) ==
  IF ~Truthy(sessionId) \/ ~Has(m, sessionId) THEN Rejected("Unauthorized")
  ELSE IF ~Truthy(m[sessionId].accessToken) THEN Rejected("Unauthorized")
  ELSE IF gateExpired(m[sessionId].expiresAt, t) THEN Rejected("Unauthorized")
  ELSE [admit |-> TRUE, status |-> 0, error |-> "none",
        accessToken |-> m[sessionId].accessToken]

\* trading.js 26-37
authenticateRequest(m, sessionId, t) ==
  IF ~Truthy(sessionId) \/ ~Has(m, sessionId) THEN Rejected("Unauthorized")
  ELSE IF ~Truthy(m[sessionId].accessToken) THEN Rejected("Unauthorized")
  ELSE IF gateExpired(m[sessionId].expiresAt, t) THEN Rejected("Token expired")
  ELSE [admit |-> TRUE, status |-> 0, error |-> "none",
        accessToken |-> m[sessionId].accessToken]

\* trading.js 50, 68, 87: the Authorization header of the downstream call
bearerOf(route, accessToken) == IF route = "quotes" THEN Undefined ELSE accessToken

\* trading.js 19-23, 43, 63, 80: tradingLimiter answers 429 once its window is
\* full; which requests it stops depends on traffic outside the model, so any
\* request may be the one it stops.  The gate and the handler do not run.
TradingLimited(route) ==
  /\ last' = [NoResp EXCEPT !.route = route, !.outcome = "limited", !.status = 429]
  /\ UNCHANGED <<pendingRf, nrefresh>>
  /\ UNCHANGED autoVars
  /\ UNCHANGED <<sessionMiddleware, session, tokenStore, store, now, ticks, attempts, issued,
                 failedSince, succeeded, ncalls, nbroker, minted, pendingCb, pendingTr, nsid>>

\* trading.js 34-35: what the gate attaches to the request for the handler
reqAttached(accessToken, sessionId) == {accessToken, sessionId}

\* trading.js 43-51, 63-68, 80-88: the gate, then the handler up to the await
TradingRequest(route, c, header) ==
  LET sessionId == sessionKey(header, c)
      g == authenticateRequest(store, sessionId, now)
      obs == [NoResp EXCEPT !.route = route, !.key = sessionId, !.at = now,
                            !.hadRecord = Has(store, sessionId),
                            !.expiresAt = IF Has(store, sessionId)
                                            THEN store[sessionId].expiresAt ELSE 0]
  IN IF ~g.admit
       THEN /\ last' = [obs EXCEPT !.outcome = "rejected", !.status = g.status,
                                   !.body = g.error, !.gate = g.error]
            /\ UNCHANGED <<nbroker, pendingTr>>
     ELSE /\ nbroker < MaxTrading
          /\ nbroker' = nbroker + 1
          /\ pendingTr' = pendingTr \cup {[id |-> nbroker + 1, route |-> route,
                                           bearer |-> bearerOf(route, g.accessToken)]}
          /\ last' = [obs EXCEPT !.outcome = "downstream", !.gate = "admit",
                                 !.token = g.accessToken,
                                 !.verifier = bearerOf(route, g.accessToken),
                                 !.exposed = reqAttached(g.accessToken, sessionId)]

TradingRequestStep(route, c, header) ==
  /\ TradingRequest(route, c, header)
  /\ UNCHANGED <<pendingRf, nrefresh>>
  /\ UNCHANGED autoVars
  /\ UNCHANGED <<sessionMiddleware, session, tokenStore, store, now, ticks, attempts, issued,
                 failedSince, succeeded, ncalls, minted, pendingCb, nsid>>

\* trading.js 52-56, 69-73, 89-93: the downstream call settled
TradingSettled(p, downstreamStatus) ==
  /\ p \in pendingTr
  /\ pendingTr' = pendingTr \ {p}
  /\ last' = [NoResp EXCEPT !.route = p.route, !.outcome = "done",
                            !.status = IF downstreamStatus = 200
                                         THEN (IF p.route = "orders" THEN 201 ELSE 200)
                                         ELSE (IF downstreamStatus = 0 THEN 500
                                                                       ELSE downstreamStatus),
                            !.body = IF downstreamStatus = 200 THEN "data" ELSE "error"]
  /\ UNCHANGED <<pendingRf, nrefresh>>
  /\ UNCHANGED autoVars
  /\ UNCHANGED <<sessionMiddleware, session, tokenStore, store, now, ticks, attempts, issued,
                 failedSince, succeeded, ncalls, nbroker, minted, pendingCb, nsid>>

\* ------------------------------------------------------------- the clock
Tick ==
  /\ ticks < MaxTicks
  /\ now' = Instant[ticks + 2]
  /\ ticks' = ticks + 1
  /\ UNCHANGED <<pendingRf, nrefresh>>
  /\ UNCHANGED autoVars
  /\ UNCHANGED <<sessionMiddleware, session, tokenStore, store, attempts, issued,
                 failedSince, succeeded, ncalls, nbroker, minted, pendingCb, pendingTr, nsid,
                 last>>

\* ------------------------------------------------- the auto-trading module
\* part_002 39: sig.confirmed || process.env.AUTO_TRADING === 'true'
shouldTrade(confirmed, env) == confirmed \/ env

\* part_002 38-39: the first signal of the rest of a batch that the for loop
\* turns into an order, 0 when it reaches the end of the batch without one
firstTraded(rest, env) ==
  IF \E i \in 1..Len(rest) : shouldTrade(rest[i], env)
    THEN CHOOSE i \in 1..Len(rest) :
           /\ shouldTrade(rest[i], env)
           /\ \A j \in 1..(i - 1) : ~shouldTrade(rest[j], env)
    ELSE 0

\* part_002 38-49: the for loop of scan loop l from the signals `rest` on, up to
\* its next await: schwabTrade for the next signal to trade (42), or sleep (49).
\* Nothing in it reads AUTO_TRADING_ACTIVE.
forLoop(l, rest, env) ==
  LET i == firstTraded(rest, env) IN
  IF i = 0
    THEN loops' = [loops EXCEPT ![l] = [@ EXCEPT !.pc = "sleep", !.rest = << >>]]
    ELSE loops' = [loops EXCEPT ![l] = [@ EXCEPT !.pc = "trade",
                                                 !.rest = SubSeq(rest, i + 1, Len(rest))]]

\* part_002 33-37: the flag is set and the first scan awaits getRocketSignals.
\* (logTrade appends to a log file nothing in the module reads back.)
startAutoTrading ==
  /\ Len(loops) < MaxStart
  /\ AUTO_TRADING_ACTIVE' = TRUE
  /\ loops' = Append(loops, [pc |-> "signals", rest |-> << >>, scans |-> 1])
  /\ UNCHANGED backendVars

\* part_002 54-57
stopAutoTrading ==
  /\ AUTO_TRADING_ACTIVE' = FALSE
  /\ UNCHANGED loops
  /\ UNCHANGED backendVars

\* part_002 59-61
getAutoStatus == [active |-> AUTO_TRADING_ACTIVE]

\* part_002 37-42: getRocketSignals resolved with a batch of signals, each given
\* by its `confirmed` flag; env is process.env.AUTO_TRADING === 'true' as read
\* during this run of the for loop
SignalsResolved(l, batch, env) ==
  /\ l \in 1..Len(loops)
  /\ loops[l].pc = "signals"
  /\ forLoop(l, batch, env)
  /\ UNCHANGED AUTO_TRADING_ACTIVE
  /\ UNCHANGED backendVars

\* part_002 37: getRocketSignals rejected; nothing catches it, the async
\* function ends and the flag stays as it is
SignalsFailed(l) ==
  /\ l \in 1..Len(loops)
  /\ loops[l].pc = "signals"
  /\ loops' = [loops EXCEPT ![l] = [@ EXCEPT !.pc = "done"]]
  /\ UNCHANGED AUTO_TRADING_ACTIVE
  /\ UNCHANGED backendVars

\* part_002 42-49: schwabTrade settled (resolved or rejected: either way one
\* line is logged) and the for loop goes on
TradeSettled(l, env) ==
  /\ l \in 1..Len(loops)
  /\ loops[l].pc = "trade"
  /\ forLoop(l, loops[l].rest, env)
  /\ UNCHANGED AUTO_TRADING_ACTIVE
  /\ UNCHANGED backendVars

\* part_002 49, 36-37: the sleep is over and the while condition is tested
SleepDone(l) ==
  /\ l \in 1..Len(loops)
  /\ loops[l].pc = "sleep"
  /\ IF AUTO_TRADING_ACTIVE
       THEN /\ loops[l].scans < MaxScans
            /\ loops' = [loops EXCEPT ![l] = [@ EXCEPT !.pc = "signals",
                                                        !.scans = @ + 1]]
       ELSE loops' = [loops EXCEPT ![l] = [@ EXCEPT !.pc = "done"]]
  /\ UNCHANGED AUTO_TRADING_ACTIVE
  /\ UNCHANGED backendVars

\* --------------------------------------------------------- specifications
\* The whole backend: the authorization flow and /status of auth.js, the
\* trading routes, the utility store and the clock, with one session context
\* authorizing.
Next ==
  \/ (attempts = << >> /\ Authorize("A"))
  \/ (ncalls = 0 /\ \E state \in States \cup {Undefined} : Callback("A", "code1", state))
  \/ \E p \in pendingCb, e \in ExpiresIn : CallbackExchanged(p, TRUE, e)
  \/ \E p \in pendingCb : CallbackFailed(p, "400")
  \/ Status("sid1")
  \/ \E e \in ExpiresIn : StoreSet("sid1", e)
  \/ \E h \in HeaderValues : TradingRequestStep("accounts", "A", h)
  \/ \E p \in pendingTr : TradingSettled(p, 200)
  \/ Tick

Spec == Init /\ [][Next]_vars

\* The authorization flow of auth.js, two session contexts.
NextFlow ==
  \/ \E c \in Ctx : Authorize(c)
  \/ \E c \in Ctx, code \in Codes, state \in States \cup {Undefined} : Callback(c, code, state)
  \/ \E p \in pendingCb : CallbackExchanged(p, TRUE, 1)
  \/ \E p \in pendingCb, s \in {"400", "none"} : CallbackFailed(p, s)

SpecFlow == Init /\ [][NextFlow]_vars

\* The Authorization Gate of trading.js over utils/tokenStore.js.
NextGate ==
  \/ \E k \in StoreKeys : StoreSet(k, 1)
  \/ \E k \in StoreKeys : StoreDelete(k)
  \/ StoreClear
  \/ \E route \in TradingRoutes : TradingLimited(route)
  \/ \E route \in TradingRoutes, c \in Ctx, h \in HeaderValues :
        TradingRequestStep(route, c, h)
  \/ \E p \in pendingTr, s \in {200, 400, 0} : TradingSettled(p, s)
  \/ Tick

SpecGate == Init /\ [][NextGate]_vars

\* /refresh and /logout of auth.js over the records one session context's
\* callbacks stored, with refresh calls overlapping in flight.
NextRefresh ==
  \/ (attempts = << >> /\ Authorize("A"))
  \/ Callback("A", "code1", "st1")
  \/ \E p \in pendingCb, w \in BOOLEAN : CallbackExchanged(p, w, 1)
  \/ \E k \in RefreshKeys : RefreshStep(k)
  \/ \E p \in pendingRf, w \in BOOLEAN : RefreshExchanged(p, w, 1)
  \/ \E p \in pendingRf, s \in ProviderStatus : RefreshFailed(p, s)
  \/ \E k \in RefreshKeys : Logout(k)

SpecRefresh == Init /\ [][NextRefresh]_vars

\* Every route of the backend once, in one session context, under the clock:
\* the five routes of auth.js, the utility store and a trading request.
NextRoutes ==
  \/ (attempts = << >> /\ Authorize("A"))
  \/ (ncalls = 0 /\ Callback("A", "code1", "st1"))
  \/ \E p \in pendingCb : CallbackExchanged(p, TRUE, 1)
  \/ (nrefresh = 0 /\ RefreshStep("sid1"))
  \/ \E p \in pendingRf, e \in ExpiresIn : RefreshExchanged(p, TRUE, e)
  \/ \E p \in pendingRf : RefreshFailed(p, 400)
  \/ Logout("sid1")
  \/ Status("sid1")
  \/ StoreSet("sid1", 1)
  \/ TradingRequestStep("accounts", "A", "sid1")
  \/ \E p \in pendingTr : TradingSettled(p, 200)
  \/ Tick

SpecRoutes == Init /\ [][NextRoutes]_vars

\* The auto-trading module: its control functions and its scan loops.
NextAuto ==
  \/ startAutoTrading
  \/ stopAutoTrading
  \/ \E l \in 1..Len(loops), batch \in Batches, env \in BOOLEAN : SignalsResolved(l, batch, env)
  \/ \E l \in 1..Len(loops) : SignalsFailed(l)
  \/ \E l \in 1..Len(loops), env \in BOOLEAN : TradeSettled(l, env)
  \/ \E l \in 1..Len(loops) : SleepDone(l)

SpecAuto == Init /\ [][NextAuto]_vars

\* ------------------------------------------------------------ properties
\* the step just taken is the state check of a /callback
CallbackChecked == last.route = "callback" /\ last.outcome \in {"invalid_state", "exchanging"}

\* the step just taken is a trading request that reached the Authorization Gate
GateDecided == last.route \in TradingRoutes /\ last.outcome \in {"rejected", "downstream"}

IssuedIn(c, st) == \E n \in 1..Len(attempts) : attempts[n] = c /\ StateName[n] = st

\* C1: a /callback, with or without a state parameter, reaches the token
\* exchange only if the state it presents is the one most recently issued by
\* /authorize in its session context, and only such callbacks store a record.
C1_ExchangeOnlyOnIssuedState ==
  /\ (last.route = "callback" /\ last.outcome = "exchanging") => last.state = last.issued
  /\ \A t \in succeeded : IssuedIn(t[1], t[3])

\* C2: after /authorize and a /callback with the state it issued and a
\* successful provider response, the Authorization Gate called with the session
\* key handed to the front end finds the record and yields exactly the access
\* token the provider returned.  (Every record of tokenStore was written by a
\* successful callback under the key its redirect handed back; the first
\* conjunct keeps to runs whose callbacks all presented an issued state.)
C2_RoundTrip ==
  ((\A t \in succeeded : IssuedIn(t[1], t[3]))
     /\ GateDecided /\ Has(tokenStore, last.key)
     /\ last.at < tokenStore[last.key].expiresAt)
    => (last.gate = "admit" /\ last.token = tokenStore[last.key].accessToken)

\* C3: a brokerage call is issued only for a request the Gate admitted, the
\* store then holding for the request's session key a record with an access
\* token and an expiresAt still ahead; a rejected request gets 401 and issues
\* no brokerage call.
C3_NoCallWithoutAdmission ==
  [][/\ (nbroker' # nbroker) =>
          /\ last'.gate = "admit"
          /\ Has(store, last'.key)
          /\ Truthy(store[last'.key].accessToken)
          /\ store[last'.key].expiresAt > now
     /\ (last' # last /\ last'.route \in TradingRoutes /\ last'.outcome = "rejected") =>
          /\ last'.status = 401
          /\ nbroker' = nbroker
          /\ pendingTr' = pendingTr]_vars

C3_Witness ==
  /\ last.route \in TradingRoutes
  /\ last.outcome = "rejected"
  /\ last.hadRecord
  /\ last.gate = "Token expired"
  /\ nbroker = 0

\* C4: the Gate's outcome is determined by the store and the clock:
\* 'Unauthorized' when the store has no record for the session key, 'Token
\* expired' when the record's expiresAt has elapsed, otherwise admission with
\* the stored access token; it calls no token endpoint and leaves both stores
\* as they were.
C4_GateOutcome ==
  [][(last'.route \in TradingRoutes /\ last'.outcome \in {"rejected", "downstream"}
        /\ (last' # last \/ nbroker' # nbroker)) =>
       LET k == last'.key IN
       /\ ~Has(store, k) => (last'.gate = "Unauthorized" /\ last'.status = 401)
       /\ (Has(store, k) /\ store[k].expiresAt < now) =>
             (last'.gate = "Token expired" /\ last'.status = 401)
       /\ (Has(store, k) /\ store[k].expiresAt > now) =>
             (last'.gate = "admit" /\ last'.token = store[k].accessToken)
       /\ last'.gate \in {"Unauthorized", "Token expired", "admit"}
       /\ store' = store
       /\ tokenStore' = tokenStore
       /\ ncalls' = ncalls
       /\ minted' = minted]_vars

C4_Witness ==
  /\ GateDecided
  /\ last.hadRecord
  /\ last.at > last.expiresAt
  /\ last.gate = "Token expired"

\* C5: with integer millisecond time, the Gate admits a stored record at
\* expiresAt - 1 and answers 'Token expired' at expiresAt + 1, and /status
\* reports authenticated exactly under the clock condition under which the
\* Gate admits (now < expiresAt).
C5_ExpiryBoundary ==
  /\ (GateDecided /\ last.hadRecord) =>
        /\ (last.at = last.expiresAt - 1) => last.gate = "admit"
        /\ (last.at = last.expiresAt + 1) => last.gate = "Token expired"
        /\ (last.gate = "admit") <=> (last.at < last.expiresAt)
  /\ (last.route = "status" /\ last.hadRecord) =>
        ((last.body = "authenticated:true") <=> (last.at < last.expiresAt))

C5_Witness ==
  /\ GateDecided
  /\ last.hadRecord
  /\ last.at = last.expiresAt - 1
  /\ last.gate = "admit"

\* C6: once a /callback has stored tokens for a session context, the pending
\* attempt is gone: a second /callback in that context presenting the same
\* code and the same issued state is rejected and makes no second
\* code-exchange call.
C6_SingleUse ==
  ~(/\ last.route = "callback"
    /\ last.outcome = "exchanging"
    /\ last.afterOk
    /\ IssuedIn(last.ctx, last.state))

\* C7: after a /callback has failed in a session context, no later /callback
\* in that context (here: one presenting the state /authorize issued there)
\* stores a TokenRecord unless /authorize ran in between.
C7_FailedIsTerminal ==
  ~(/\ last.route = "callback"
    /\ last.outcome = "authorized"
    /\ last.afterFail
    /\ IssuedIn(last.ctx, last.state))

\* C8: a /callback in a session context where /authorize never ran fails and
\* makes no outbound call, whatever its code and state, an absent state
\* included.
C8_NoPendingAttempt ==
  (CallbackChecked /\ last.issued = "none") => last.outcome = "invalid_state"

\* C9: when the code exchange fails (provider rejection or transport
\* failure), the /callback leaves every token store exactly as it was.
C9_FailedExchangeWritesNothing ==
  [][(pendingCb' # pendingCb /\ last'.route = "callback"
        /\ last'.outcome = "exchange_failed") =>
       (tokenStore' = tokenStore /\ store' = store)]_vars

C9_Witness ==
  /\ last.route = "callback"
  /\ last.outcome = "exchange_failed"
  /\ tokenStore # EmptyMap

\* C10: a state issued by /authorize in one session context is never
\* accepted by a /callback in another, and the code_verifier a callback sends
\* to the provider is never one generated for another context.
C10_NoCrossSessionLeak ==
  /\ (last.route = "callback" /\ last.outcome = "exchanging") =>
        \A n \in 1..Len(attempts) :
           (last.state = StateName[n] \/ last.verifier = VerifierName[n])
              => attempts[n] = last.ctx
  /\ \A p \in pendingCb : \A n \in 1..Len(attempts) :
        (p.state = StateName[n] \/ p.verifier = VerifierName[n]) => attempts[n] = p.ctx

C10_Witness ==
  /\ sessionMiddleware
  /\ last.route = "callback"
  /\ last.outcome = "invalid_state"
  /\ last.ctx = "B"
  /\ session["B"].oauthState # Undefined
  /\ IssuedIn("A", last.state)
  /\ ~IssuedIn("B", last.state)

\* the step just taken is the entry check of a /refresh
RefreshChecked == last.route = "refresh" /\ last.outcome \in {"no_session", "refreshing"}

\* C11: /refresh answers 401 and makes no outbound call whenever the store
\* holds no record for the session key or the stored record has no refresh
\* token.
C11_NoStoredTokenNoCall ==
  (RefreshChecked /\ (~last.hadRecord \/ ~Truthy(last.sent)))
    => (last.outcome = "no_session" /\ last.status = 401)

\* the step just taken is a /refresh whose provider call succeeded
Refreshed == last.route = "refresh" /\ last.outcome = "refreshed"

\* C12: after a successful refresh the store holds for the session key a
\* record whose accessToken is the provider's new access token and whose
\* refreshToken is the provider's new refresh token when the response carries
\* one, and otherwise the stored refresh token the refresh presented.
C12_RefreshReplacesRecord ==
  Refreshed =>
    /\ Has(tokenStore, last.key)
    /\ tokenStore[last.key].accessToken = last.token
    /\ tokenStore[last.key].refreshToken =
         (IF last.refresh # Undefined THEN last.refresh ELSE last.sent)

C12_Witness ==
  /\ Refreshed
  /\ last.refresh = Undefined
  /\ Truthy(last.sent)
  /\ tokenStore[last.key].refreshToken = last.sent
  /\ tokenStore[last.key].accessToken # AccessName[1]

\* C13: when the refresh exchange fails (provider rejection or transport
\* failure), the record for the key is exactly as it was, and so is every
\* other record of either store.
C13_FailedRefreshWritesNothing ==
  [][(pendingRf' # pendingRf /\ last'.route = "refresh"
        /\ last'.outcome = "refresh_failed") =>
       (tokenStore' = tokenStore /\ store' = store)]_vars

C13_Witness ==
  /\ last.route = "refresh"
  /\ last.outcome = "refresh_failed"
  /\ last.hadRecord
  /\ Has(tokenStore, last.key)
  /\ Cardinality(DOMAIN tokenStore) = 2

\* C14: of two refreshes for one session key that overlap in flight, each makes
\* its own outbound call, and when the later one to complete has stored its
\* result the record for the key is exactly the one built from that call's
\* response (last write wins).
C14_LastWriteWins ==
  /\ (last.route = "refresh" /\ last.outcome = "refreshing" /\ last.overlapped) =>
        (nrefresh >= 2 /\ Cardinality({q \in pendingRf : q.key = last.key}) >= 2)
  /\ (Refreshed /\ last.overlapped) =>
        /\ nrefresh >= 2
        /\ Has(tokenStore, last.key)
        /\ tokenStore[last.key] =
             tokenRecord(last.token,
                         IF last.refresh # Undefined THEN last.refresh ELSE last.sent,
                         last.expiresIn, last.at)

C14_Witness ==
  /\ Refreshed
  /\ last.overlapped
  /\ pendingRf = {}
  /\ nrefresh = 2
  /\ ncalls = 1
  /\ minted = 3
  /\ last.token = AccessName[3]

\* C15: every write to a token store puts a whole record in place in one step
\* and the Gate takes the fields it uses from the one record the store holds
\* when it runs, so that a trading request interleaved with an issuance or a
\* refresh reads the complete old or the complete new record, never a mix.
C15_AtomicWrites ==
  [][/\ \A k \in DOMAIN tokenStore' :
          (~Has(tokenStore, k) \/ tokenStore'[k] # tokenStore[k]) =>
             tokenStore'[k] =
               tokenRecord(last'.token,
                           IF last'.refresh # Undefined THEN last'.refresh ELSE last'.sent,
                           last'.expiresIn, now)
     /\ \A k \in DOMAIN store' :
          (~Has(store, k) \/ store'[k] # store[k]) =>
             \E e \in ExpiresIn :
                store'[k] = tokenRecord(AccessName[minted + 1], RefreshName[minted + 1],
                                        e, now)
     /\ (last'.route \in TradingRoutes /\ last'.outcome \in {"rejected", "downstream"}
           /\ last'.hadRecord /\ (last' # last \/ nbroker' # nbroker)) =>
          /\ Has(store, last'.key)
          /\ last'.expiresAt = store[last'.key].expiresAt
          /\ (last'.gate = "admit") => (last'.token = store[last'.key].accessToken)
          /\ store' = store
          /\ tokenStore' = tokenStore]_vars

C15_Witness ==
  /\ GateDecided
  /\ last.hadRecord
  /\ last.gate = "admit"
  /\ Has(tokenStore, last.key)
  /\ \E q \in pendingRf : q.key = last.key

\* C16: /logout answers {success: true} whether or not a record exists for the
\* key; after it the store holds no record for the key and every other record
\* is as before; a logout that finds no record, a second logout in a row in
\* particular, answers the same and leaves the store unchanged.
C16_LogoutIdempotent ==
  [][(last'.route = "logout" /\ last' # last) =>
       /\ last'.status = 200
       /\ last'.body = "success"
       /\ ~Has(tokenStore', last'.key)
       /\ \A k \in DOMAIN tokenStore :
             k # last'.key => (Has(tokenStore', k) /\ tokenStore'[k] = tokenStore[k])
       /\ (last'.repeat \/ ~last'.hadRecord) => tokenStore' = tokenStore]_vars

C16_Witness ==
  /\ last.route = "logout"
  /\ last.repeat
  /\ last.key = "sid1"
  /\ nsid >= 1
  /\ ~Has(tokenStore, "sid1")
  /\ Has(tokenStore, "sid2")

\* the step just taken wrote a TokenRecord built from a provider response
RecordWritten ==
  \/ (last.route = "callback" /\ last.outcome = "authorized")
  \/ Refreshed

\* C17: every TokenRecord written by the code exchange or by a refresh has an
\* expiresAt strictly earlier than the provider-declared expiry, the write time
\* plus expires_in seconds.
C17_ExpiryBuffer ==
  RecordWritten => last.expiresAt < last.at + last.expiresIn * 1000

\* C18: the store holds at most one TokenRecord per authenticated session: two
\* code exchanges that succeeded in one session context (here: each for a
\* state /authorize issued there, the second after a new /authorize) do not
\* leave two records under two keys.
C18_OneRecordPerSession ==
  \A t1, t2 \in succeeded :
     (/\ t1[1] = t2[1]
      /\ t1[3] # t2[3]
      /\ IssuedIn(t1[1], t1[3])
      /\ IssuedIn(t2[1], t2[3])
      /\ Has(tokenStore, t1[4])
      /\ Has(tokenStore, t2[4]))
       => t1[4] = t2[4]

AuthRoutes == {"authorize", "callback", "refresh", "logout", "status"}

\* every access token and refresh token the provider can have sent
AccessValues  == {AccessName[n] : n \in 1..Len(AccessName)}
RefreshValues == {RefreshName[n] : n \in 1..Len(RefreshName)}

\* C19: no response of /authorize, /callback, /refresh, /logout or /status
\* carries an access token or a refresh token, and what the Gate hands to the
\* trading handler is the stored access token and the session key, never the
\* refresh token or the expiry.
C19_TokensStayOffBrowser ==
  [][/\ (last'.route \in AuthRoutes) =>
          last'.exposed \cap (AccessValues \cup RefreshValues) = {}
     /\ (last'.route \in TradingRoutes /\ last'.outcome = "downstream"
           /\ nbroker' # nbroker) =>
          /\ Has(store, last'.key)
          /\ last'.exposed = {store[last'.key].accessToken, last'.key}
          /\ last'.exposed \cap RefreshValues = {}]_vars

C19_Witness ==
  /\ last.route = "callback"
  /\ last.outcome = "authorized"
  /\ last.exposed = {last.key}
  /\ Has(tokenStore, last.key)
  /\ tokenStore[last.key].accessToken \in AccessValues
  /\ tokenStore[last.key].refreshToken \in RefreshValues

\* C20: when the provider rejects a refresh with an HTTP status, the failure
\* answered to the caller carries that status; 500 is answered only when no
\* provider status exists (no response arrived).
C20_ProviderStatusPropagated ==
  (last.route = "refresh" /\ last.outcome = "refresh_failed") =>
     last.status = (IF last.provider # 0 THEN last.provider ELSE 500)

\* scan loop l starts a schwabTrade call in this step
TradeStarted(l) == loops'[l].pc = "trade" /\ loops'[l] # loops[l]

\* C21: once stopAutoTrading has returned (and startAutoTrading has not been
\* called again), no scan loop starts a schwabTrade call, whether the stop
\* came while the loop was fetching signals, inside a batch, or asleep.
C21_StopHaltsOrders ==
  [][(\E l \in 1..Len(loops) : TradeStarted(l)) => AUTO_TRADING_ACTIVE]_vars

\* every code_verifier /authorize can have generated
VerifierValues == {VerifierName[n] : n \in 1..Len(VerifierName)}

\* C22: the code_verifier of every outbound code-exchange call is the one
\* whose S256 challenge was placed in the authorization URL that carried the
\* state the callback accepted, also after several /authorize calls in the
\* session; no authorization URL carries a code_verifier.
C22_PkceBinding ==
  /\ (last.route = "callback" /\ last.outcome = "exchanging") =>
        \E n \in 1..Len(attempts) :
           /\ attempts[n] = last.ctx
           /\ StateName[n] = last.state
           /\ VerifierName[n] = last.verifier
  /\ (last.route = "authorize") =>
        /\ last.exposed \cap VerifierValues = {}
        /\ \E n \in 1..Len(attempts) :
              last.exposed = {StateName[n], codeChallenge(VerifierName[n])}

\* C23: every downstream brokerage call a trading route makes (accounts,
\* quotes, orders) carries as bearer credential the access token the Gate
\* resolved for the request's session key.
C23_BearerOnEveryCall ==
  /\ (last.route \in TradingRoutes /\ last.outcome = "downstream") =>
        (Truthy(last.token) /\ last.verifier = last.token)
  /\ \A p \in pendingTr : Truthy(p.bearer)

\* C24: once /logout has removed the record of a session key, the store holds
\* no record for the key (keys are never issued twice, so no later code
\* exchange restores it): a refresh that was awaiting the provider when the
\* logout ran, and so finds the record gone when it completes, writes none.
\* (Stated for refreshes that presented a refresh token.)
C24_LogoutIsFinal ==
  (Refreshed /\ Truthy(last.sent) /\ ~last.hadRecord) => ~Has(tokenStore, last.key)

\* C25: a refresh whose response omits refresh_token leaves the refreshToken
\* of the record as the store held it immediately before the write, also when
\* another refresh for the key rotated it while this one was in flight.
\* (Stated for refreshes that presented a refresh token.)
C25_NoStaleRefreshToken ==
  [][(pendingRf' # pendingRf /\ last'.route = "refresh" /\ last'.outcome = "refreshed"
        /\ last'.refresh = Undefined /\ Truthy(last'.sent)
        /\ Has(tokenStore, last'.key)) =>
       tokenStore'[last'.key].refreshToken = tokenStore[last'.key].refreshToken]_vars

\* C26: a trading request with no session identifier (no sessionid header and
\* no framework session id, so that its key is the fallback of trading.js:27)
\* is never admitted by the Gate, whatever the store holds, and is never given
\* an access token.
C26_NoIdentifierNoAdmission ==
  (GateDecided /\ last.key = DefaultUser) =>
     (last.gate # "admit" /\ last.token = Undefined)

\* the scan loops that have not returned
ActiveLoops == {l \in 1..Len(loops) : loops[l].pc # "done"}

\* C27: at most one auto-trading scan loop is running at any time, for every
\* sequence of startAutoTrading and stopAutoTrading calls.
C27_SingleLoop == Cardinality(ActiveLoops) <= 1
====
